---- MODULE Spec2Model ----
(***************************************************************************)
(* A model of the PermitIndex static site generator (generator.py) and of  *)
(* its link validation script (validate_links.py).                          *)
(*                                                                          *)
(* Text is modelled as a sequence of one-character strings, so that the     *)
(* string operations of the source (lower, re.sub, split, strip, endswith)  *)
(* are computed, not assumed.  An empty CSV cell is what pandas makes of    *)
(* it: the float NaN, modelled by the one-element sequence <<"NaN">>.       *)
(***************************************************************************)
EXTENDS Integers, Sequences, FiniteSets, TLC

VARIABLES
    \* ---- generator.py: one run of SiteGenerator.generate ----
    csv,              \* what pd.read_csv meets: "ok", "missing", "malformed"
    df,               \* the loaded table: [columns, rows]
    gpc,              \* position of the run inside generate()
    written,          \* the paths written by generate_page, in order
    artifacts,        \* the other files written: sitemap.xml, data.json, robots.txt
    errors,           \* self.stats['errors']
    pages_generated,  \* self.stats['pages_generated']
    hubIdx,           \* position of the loop over jurisdictions.items()
    rowIdx,           \* position of the loop over df.iterrows() in generate_transaction_pages
    abort,            \* the exception that ended the run, if any
    result,           \* the value generate() returned / the exit status
    warnings,         \* the warnings the run printed
    skipped,          \* history: the paths whose generate_page call failed, in order
    sitemap,          \* the <loc> paths written to sitemap.xml, in order
    derived,          \* history: the slugs each step derived for each record
    hubs,             \* jurisdiction slug -> the all_permits list of its hub page
    favicon,          \* history: how copy_favicon_files ended, "none" before it ran
    hub_stats,        \* jurisdiction slug -> the counts and popular_permits of its hub page
    \* ---- validate_links.py: one run of validate_production_links ----
    cpc,              \* position of the crawl: "loop", "links", "done"
    pages_to_visit,   \* the pending queue
    visited_pages,    \* the set of paths visited as pages
    link_to_status,   \* the memo: link path -> status of its check
    broken_links,     \* page -> list of the broken links found on it
    current_path,     \* the page being processed
    links,            \* the links of the current page still to be looked at
    visits,           \* history: the paths added to visited_pages, in order
    checks,           \* history: the paths whose link check was fetched, in order
    appended,         \* history: the paths appended to pages_to_visit, in order
    references,       \* history: how often each path was met as an internal link
    failed_fetches,   \* history: the paths of the fetches that failed
    failed_checks,    \* history: the paths whose link check failed
    discovered_from,  \* history: path -> the page whose link put it on the queue
    guard_fired,      \* history: whether a dequeued page was already visited
    \* ---- validate_links.py: validate_local_links ----
    output_exists,    \* whether the output directory exists
    tree,             \* the files under the output directory
    refs,             \* the href attributes of the pages, in document order
    lpc,              \* "call" before validate_local_links runs, "returned" after
    all_links,        \* file -> set of links
    local_broken,     \* file -> list of broken links
    local_ok,         \* the value validate_local_links returned
    file_paths,       \* history: link -> the values file_path took for it, in order
    \* ---- validate_links.py: main ----
    mode,             \* the command-line argument
    PLAYWRIGHT_AVAILABLE,
    mpc,              \* position inside main()
    results,          \* the (name, status) pairs
    exit_code,        \* the argument of sys.exit
    \* ---- generator.py: one call of a slug function ----
    spc,              \* "call" before the function runs, "returned" or "raised" after
    callee,           \* the function called: "slugify" or "generate_url_slug"
    slug_arg,         \* the argument: text of slugify, agency_short of generate_url_slug
    state_slug,       \* the local state_slug of generate_url_slug
    slug_value        \* the value returned

genVars == <<csv, df, gpc, written, artifacts, errors, pages_generated,
             hubIdx, rowIdx, abort, result, warnings, skipped, sitemap, derived, hubs, favicon, hub_stats>>

crawlVars == <<cpc, pages_to_visit, visited_pages, link_to_status, broken_links,
               current_path, links, visits, checks, appended, references,
               failed_fetches, failed_checks, discovered_from, guard_fired>>

localVars == <<output_exists, tree, refs, lpc, all_links, local_broken, local_ok,
               file_paths>>

mainVars == <<mode, PLAYWRIGHT_AVAILABLE, mpc, results, exit_code>>

slugVars == <<spc, callee, slug_arg, state_slug, slug_value>>

vars == <<genVars, crawlVars, localVars, mainVars, slugVars>>

-----------------------------------------------------------------------------
(* Bounds of the model *)

\* the most records a generated input table holds
MaxRows == 2

\* the most generate_page calls and favicon copies that fail in one run
MaxFailures == 1

\* the most links one crawled page holds
MaxLinks == 2

\* the most href attributes of a generated output tree
MaxRefs == 2

\* the longest text a slug function is called with, the examples aside
MaxLen == 4

\* the page-visit cap of the live crawl, which is 20 in the source, scaled
\* to the site of the model so that a crawl can both reach it and end below it
VisitCap == 2

\* the length of a hub's popular list, which is 6 in the source, scaled to
\* the tables of the model so that a hub can hold more permits than that
PopularCount == 1

-----------------------------------------------------------------------------
(* Text *)

NaN == <<"NaN">>

IsNaN(v) == v = NaN

UpperLetters ==
    <<"A", "B", "C", "D", "E", "F", "G", "H", "I", "J", "K", "L", "M",
      "N", "O", "P", "Q", "R", "S", "T", "U", "V", "W", "X", "Y", "Z">>

LowerLetters ==
    <<"a", "b", "c", "d", "e", "f", "g", "h", "i", "j", "k", "l", "m",
      "n", "o", "p", "q", "r", "s", "t", "u", "v", "w", "x", "y", "z">>

Digits == {"0", "1", "2", "3", "4", "5", "6", "7", "8", "9"}

\* the lowercase letter of each uppercase letter
LowerOf ==
    [c \in {UpperLetters[i] : i \in 1..Len(UpperLetters)} |->
        LowerLetters[CHOOSE i \in 1..Len(UpperLetters) : UpperLetters[i] = c]]

\* str.lower() on one character
LowerChar(c) == IF c \in DOMAIN LowerOf THEN LowerOf[c] ELSE c

SpaceChars == {" "}

IsSpace(c) == c \in SpaceChars

\* \w of Python's re: letters, digits and the underscore
WordChars ==
    {UpperLetters[i] : i \in 1..Len(UpperLetters)}
    \cup {LowerLetters[i] : i \in 1..Len(LowerLetters)}
    \cup Digits \cup {"_"}

IsWord(c) == c \in WordChars

\* the text without its leading characters that are in chars
RECURSIVE DropLeading(_, _)
DropLeading(s, chars) ==
    IF s # <<>> /\ s[1] \in chars THEN DropLeading(Tail(s), chars) ELSE s

\* the leading characters of the text up to the first one in chars
RECURSIVE TakeUntil(_, _)
TakeUntil(s, chars) ==
    IF s # <<>> /\ s[1] \notin chars THEN <<s[1]>> \o TakeUntil(Tail(s), chars) ELSE <<>>

Reverse(s) == [i \in 1..Len(s) |-> s[Len(s) + 1 - i]]

\* text.lower()
Lower(text) == [i \in 1..Len(text) |-> LowerChar(text[i])]

\* re.sub(r'[^\w\s-]', '', text)
RemoveSpecial(text) ==
    SelectSeq(text, LAMBDA c : IsWord(c) \/ IsSpace(c) \/ c = "-")

SeparatorChars == SpaceChars \cup {"_"}

IsSeparator(c) == c \in SeparatorChars

\* re.sub(r'[\s_]+', '-', text): every maximal run of whitespace and
\* underscores becomes one hyphen; hyphens already present are kept
RECURSIVE CollapseSeparators(_)
CollapseSeparators(text) ==
    IF text = <<>> THEN <<>>
    ELSE IF IsSeparator(text[1])
         THEN <<"-">> \o CollapseSeparators(DropLeading(text, SeparatorChars))
         ELSE <<text[1]>> \o CollapseSeparators(Tail(text))

\* re.sub(r'^-+|-+$', '', text)
StripHyphens(text) ==
    Reverse(DropLeading(Reverse(DropLeading(text, {"-"})), {"-"}))

\* SiteGenerator.slugify
slugify(text) == StripHyphens(CollapseSeparators(RemoveSpecial(Lower(text))))

\* str.split(): the whitespace-delimited tokens; only the first is used
FirstToken(text) == TakeUntil(DropLeading(text, SpaceChars), SpaceChars)

HasToken(text) == DropLeading(text, SpaceChars) # <<>>

state_map ==
    (<<"C", "A">> :> <<"c", "a", "l", "i", "f", "o", "r", "n", "i", "a">>)
 @@ (<<"N", "Y">> :> <<"n", "e", "w", "-", "y", "o", "r", "k">>)
 @@ (<<"T", "X">> :> <<"t", "e", "x", "a", "s">>)
 @@ (<<"F", "L">> :> <<"f", "l", "o", "r", "i", "d", "a">>)

\* an abbreviation that is the whole agency name
state_abbrev_whole(agency_short) == agency_short

\* state_abbrev = agency_short.split()[0] if agency_short else ""
state_abbrev(agency_short) ==
    IF agency_short # <<>> THEN FirstToken(agency_short) ELSE <<>>

\* a jurisdiction slug that is the slug of the whole agency name
JurisdictionSlugWhole(agency_short) == slugify(agency_short)

\* state_map.get(state_abbrev, self.slugify(state_abbrev))
JurisdictionSlug(agency_short) ==
    LET abbrev == state_abbrev(agency_short)
    IN  IF abbrev \in DOMAIN state_map THEN state_map[abbrev] ELSE slugify(abbrev)

PermitSlug(request_type) == slugify(request_type)

\* SiteGenerator.generate_url_slug: f"{state_slug}-{request_slug}"
generate_url_slug(agency_short, request_type) ==
    JurisdictionSlug(agency_short) \o <<"-">> \o slugify(request_type)

\* os.path.join(self.output_dir, ...): an empty component adds no directory
PathJoin(parts) == SelectSeq(parts, LAMBDA x : x # <<>>)

IndexHtml == <<"index.html">>

HomepagePath == PathJoin(<<IndexHtml>>)

HubPath(jurisdiction_slug) == PathJoin(<<jurisdiction_slug, IndexHtml>>)

DetailPath(jurisdiction_slug, permit_slug) ==
    PathJoin(<<jurisdiction_slug, permit_slug, IndexHtml>>)

-----------------------------------------------------------------------------
(* generator.py: the input table *)

\* the columns the generator reads without a guard, plus how_to_description,
\* estimated_monthly_volume and mcp_available
Columns ==
    {"agency_short", "agency_full", "request_type", "cost", "effort_hours",
     "location_applicability", "online_available", "api_available",
     "date_extracted", "how_to_description", "estimated_monthly_volume",
     "mcp_available"}

\* columns no step reads by name
ExtraColumns == {"extra_field", "another_extra"}

\* agency_short cells: two agencies of one state, an unmapped agency, an empty cell
AgencyValues ==
    {<<"C", "A", " ", "d">>, <<"C", "A", " ", "m">>, <<"Z", "z", " ", "d">>, NaN}

\* request_type cells: two spellings of one slug, a name that slugifies to
\* the empty string, an empty cell
RequestValues == {<<"P", " ", "q">>, <<"p", "_", "q">>, <<"!">>, NaN}

\* estimated_monthly_volume cells: "50", "800-1200", an empty cell
VolumeValues ==
    {<<"5", "0">>, <<"8", "0", "0", "-", "1", "2", "0", "0">>, NaN}

\* a record: its two slug sources, its volume cell, the set of its other
\* cells that are empty, and the set of its availability cells that are 'Yes'
Row(a, r, e, v) ==
    [agency_short |-> a, request_type |-> r, empty |-> e,
     estimated_monthly_volume |-> v, yes |-> {}]

CleanA == <<"C", "A", " ", "d">>
CleanR == <<"P", " ", "q">>
CleanV == <<"5", "0">>

\* the availability cells of an agency's records that are 'Yes': one agency
\* offers nothing, one is online only, one is online, has an API and an MCP
Availability(a) ==
    IF a = <<"C", "A", " ", "m">> THEN {"online_available"}
    ELSE IF a = <<"Z", "z", " ", "d">>
         THEN {"online_available", "api_available", "mcp_available"}
         ELSE {}

\* records without an empty cell other than the volume: every pair of
\* non-empty agency and request-type spellings, and every volume
CleanRows ==
    {[Row(a, r, {}, CleanV) EXCEPT !.yes = Availability(a)] :
        a \in AgencyValues \ {NaN}, r \in RequestValues \ {NaN, <<"!">>}}
    \cup {Row(CleanA, CleanR, {}, v) : v \in VolumeValues}

\* one record for each kind of empty cell, and one whose permit slug is empty
DefectRows ==
    {Row(CleanA, <<"!">>, {}, CleanV), Row(NaN, CleanR, {}, CleanV),
     Row(CleanA, NaN, {}, CleanV)}
    \cup {Row(CleanA, CleanR, {c}, CleanV) :
             c \in {"cost", "location_applicability", "how_to_description"}}

\* the records an input table is made of
RowValues == CleanRows \cup DefectRows

\* the records of the tables that lack a column or carry extra columns
BasicRows ==
    {Row(CleanA, CleanR, {}, CleanV), Row(<<"Z", "z", " ", "d">>, <<"p", "_", "q">>, {}, NaN)}

RECURSIVE SeqsUpTo(_, _)
SeqsUpTo(S, n) ==
    IF n = 0 THEN {<<>>}
    ELSE LET shorter == SeqsUpTo(S, n - 1)
         IN  shorter \cup {Append(q, x) : q \in {t \in shorter : Len(t) = n - 1}, x \in S}

\* the tables pd.read_csv can return: every column present, one column
\* absent, or extra columns besides all the others
Tables ==
    {[columns |-> Columns, rows |-> rows] : rows \in SeqsUpTo(RowValues, MaxRows)}
    \cup {[columns |-> Columns \ {c}, rows |-> rows] :
             c \in Columns \ {"how_to_description"},
             rows \in SeqsUpTo(BasicRows, MaxRows)}
    \cup {[columns |-> Columns \cup ExtraColumns, rows |-> rows] :
             rows \in SeqsUpTo(BasicRows, MaxRows)}

NoTable == [columns |-> {}, rows |-> <<>>]

-----------------------------------------------------------------------------
(* generator.py: what each step raises on a table *)

NoError == [exc |-> "none", at |-> ""]

Raised(exc, at) == [exc |-> exc, at |-> at]

\* the first element of a sequence of outcomes that is an exception
RECURSIVE FirstError(_)
FirstError(outcomes) ==
    IF outcomes = <<>> THEN NoError
    ELSE IF outcomes[1] # NoError THEN outcomes[1] ELSE FirstError(Tail(outcomes))

\* df[column], row[column]: KeyError when the table has no such column
Column(table, column) ==
    IF column \in table.columns THEN NoError ELSE Raised("KeyError", column)

\* row['agency_short'].split()[0] if row['agency_short'] else "": NaN is a
\* truthy float without split(); a blank string has no first token
AbbrevError(row) ==
    IF IsNaN(row.agency_short) THEN Raised("AttributeError", "agency_short")
    ELSE IF row.agency_short # <<>> /\ ~HasToken(row.agency_short)
         THEN Raised("IndexError", "agency_short")
         ELSE NoError

\* self.slugify(row['request_type']): NaN has no lower()
RequestError(table, row) ==
    IF "request_type" \notin table.columns THEN Raised("KeyError", "request_type")
    ELSE IF IsNaN(row.request_type) THEN Raised("AttributeError", "request_type")
         ELSE NoError

\* a homepage that lists no recent permits reads no cell of a record
HomepageRowErrorSkipped(table, row) == NoError

\* generate_homepage: the statistics, the groupby, then for each record the
\* two slugs and the cells of the recent_permits entry, in source order
HomepageRowError(table, row) ==
    FirstError(<<AbbrevError(row), RequestError(table, row), Column(table, "cost"),
                 Column(table, "effort_hours"), Column(table, "online_available"),
                 Column(table, "location_applicability")>>)

HomepageError(table) ==
    FirstError(<<Column(table, "agency_full"), Column(table, "online_available"),
                 Column(table, "api_available"), Column(table, "agency_short")>>
               \o [i \in 1..Len(table.rows) |-> HomepageRowError(table, table.rows[i])])

\* generate_jurisdiction_hubs: the grouping loop reads these cells of each record
HubRowError(table, row) ==
    FirstError(<<Column(table, "agency_short"), AbbrevError(row), RequestError(table, row),
                 Column(table, "agency_full"), Column(table, "cost"),
                 Column(table, "online_available"), Column(table, "api_available")>>)

HubsError(table) ==
    FirstError([i \in 1..Len(table.rows) |-> HubRowError(table, table.rows[i])])

\* generate_transaction_pages, one record: split_numbered_steps gets the
\* truthy NaN of an empty how_to_description cell and re.split rejects it
PageRowError(table, row) ==
    FirstError(<<IF "how_to_description" \in table.columns
                    /\ "how_to_description" \in row.empty
                 THEN Raised("TypeError", "how_to_description") ELSE NoError,
                 Column(table, "agency_short"), AbbrevError(row),
                 RequestError(table, row)>>)

\* generate_sitemap: each record's <lastmod> reads row["date_extracted"]
SitemapError(table) ==
    FirstError(<<Column(table, "agency_short")>>
               \o [i \in 1..Len(table.rows) |->
                      FirstError(<<AbbrevError(table.rows[i]),
                                   RequestError(table, table.rows[i]),
                                   Column(table, "date_extracted")>>)])

-----------------------------------------------------------------------------
(* generator.py: the pages of a table *)

RowJurisdiction(row) == JurisdictionSlug(row.agency_short)

RowPermit(row) == PermitSlug(row.request_type)

RowDetailPath(row) == DetailPath(RowJurisdiction(row), RowPermit(row))

\* the keys of the jurisdictions dict, in insertion order
RECURSIVE HubOrder(_)
HubOrder(rows) ==
    IF rows = <<>> THEN <<>>
    ELSE LET before == HubOrder(SubSeq(rows, 1, Len(rows) - 1))
             slug == RowJurisdiction(rows[Len(rows)])
         IN  IF \E i \in 1..Len(before) : before[i] = slug
             THEN before ELSE Append(before, slug)

\* the indices of the records a hub lists, in input order
HubPermits(rows, jurisdiction_slug) ==
    SelectSeq([i \in 1..Len(rows) |-> i],
              LAMBDA i : RowJurisdiction(rows[i]) = jurisdiction_slug)

\* str(vol): the text of a cell; the NaN of an empty cell prints as "nan"
Str(v) == IF IsNaN(v) THEN <<"n", "a", "n">> ELSE v

\* the text from its first character that is in chars
RECURSIVE DropUntil(_, _)
DropUntil(s, chars) ==
    IF s # <<>> /\ s[1] \notin chars THEN DropUntil(Tail(s), chars) ELSE s

\* the leading characters of the text that are in chars
RECURSIVE TakeLeading(_, _)
TakeLeading(s, chars) ==
    IF s # <<>> /\ s[1] \in chars THEN <<s[1]>> \o TakeLeading(Tail(s), chars) ELSE <<>>

DigitChars == <<"0", "1", "2", "3", "4", "5", "6", "7", "8", "9">>

\* int() of a text of digits
RECURSIVE ToInt(_)
ToInt(digits) ==
    IF digits = <<>> THEN 0
    ELSE ToInt(SubSeq(digits, 1, Len(digits) - 1)) * 10
         + (CHOOSE n \in 0..9 : DigitChars[n + 1] = digits[Len(digits)])

\* get_volume: re.search(r'\d+', str(vol)), int(match.group()) if match else 0
get_volume(vol) ==
    LET match == TakeLeading(DropUntil(Str(vol), Digits), Digits)
    IN  IF match # <<>> THEN ToInt(match) ELSE 0

\* row.get('estimated_monthly_volume', '0')
RowVolume(table, i) ==
    IF "estimated_monthly_volume" \in table.columns
    THEN table.rows[i].estimated_monthly_volume ELSE <<"0">>

\* a sort that puts the smallest volume first
RECURSIVE sorted_ascending(_, _)
sorted_ascending(table, permits) ==
    IF permits = <<>> THEN <<>>
    ELSE LET rest == sorted_ascending(table, SubSeq(permits, 1, Len(permits) - 1))
             last == permits[Len(permits)]
             key == get_volume(RowVolume(table, last))
             before == SelectSeq(rest, LAMBDA i : get_volume(RowVolume(table, i)) <= key)
             after == SelectSeq(rest, LAMBDA i : get_volume(RowVolume(table, i)) > key)
         IN  before \o <<last>> \o after

\* sorted(data['permits'], key=get_volume, reverse=True): records of greater
\* volume first, records of equal volume in the order they had
RECURSIVE sorted_permits(_, _)
sorted_permits(table, permits) ==
    IF permits = <<>> THEN <<>>
    ELSE LET rest == sorted_permits(table, SubSeq(permits, 1, Len(permits) - 1))
             last == permits[Len(permits)]
             key == get_volume(RowVolume(table, last))
             before == SelectSeq(rest, LAMBDA i : get_volume(RowVolume(table, i)) >= key)
             after == SelectSeq(rest, LAMBDA i : get_volume(RowVolume(table, i)) < key)
         IN  before \o <<last>> \o after

\* the last elements of the sorted list instead of the first
popular_last(sorted) ==
    SubSeq(sorted,
           IF Len(sorted) > PopularCount THEN Len(sorted) - PopularCount + 1 ELSE 1,
           Len(sorted))

\* popular_permits = sorted_permits[:6]
popular_permits(sorted) ==
    SubSeq(sorted, 1, IF Len(sorted) < PopularCount THEN Len(sorted) ELSE PopularCount)

\* len([p for p in data['permits'] if p[column] == 'Yes']); a table without
\* the mcp_available column answers 'No' for every record
YesCount(table, permits, column) ==
    Cardinality({k \in 1..Len(permits) :
                    /\ column \in table.columns
                    /\ column \in table.rows[permits[k]].yes})

\* the statistics and the popular list of the template data of one hub
HubStats(table, permits) ==
    [total_permits |-> Len(permits),
     online_permits |-> YesCount(table, permits, "online_available"),
     api_permits |-> YesCount(table, permits, "api_available"),
     mcp_permits |-> YesCount(table, permits, "mcp_available"),
     popular_permits |-> popular_permits(sorted_permits(table, permits))]

\* the code points of the characters, in ascending order
CodePointOrder ==
    <<" ", "!", "-">> \o DigitChars \o UpperLetters \o <<"_">> \o LowerLetters

CodePointOf ==
    [c \in {CodePointOrder[k] : k \in 1..Len(CodePointOrder)} |->
        CHOOSE k \in 1..Len(CodePointOrder) : CodePointOrder[k] = c]

CodePoint(c) == CodePointOf[c]

\* a < b of two str values
RECURSIVE TextLess(_, _)
TextLess(a, b) ==
    IF b = <<>> THEN FALSE
    ELSE IF a = <<>> THEN TRUE
    ELSE IF a[1] # b[1] THEN CodePoint(a[1]) < CodePoint(b[1])
    ELSE TextLess(Tail(a), Tail(b))

\* the keys of df.groupby('agency_short'): the distinct non-empty cells, sorted
RECURSIVE GroupKeys(_)
GroupKeys(agencies) ==
    IF agencies = {} THEN <<>>
    ELSE LET least == CHOOSE a \in agencies : \A b \in agencies \ {a} : TextLess(a, b)
         IN  <<least>> \o GroupKeys(agencies \ {least})

AgencyCells(rows) ==
    {rows[i].agency_short : i \in 1..Len(rows)} \ {NaN}

\* f"/{jurisdiction_slug}/"
HubUrl(jurisdiction_slug) == <<"/">> \o jurisdiction_slug \o <<"/">>

\* f"/{jurisdiction_slug}/{permit_slug}/"
PermitUrl(jurisdiction_slug, permit_slug) ==
    <<"/">> \o jurisdiction_slug \o <<"/">> \o permit_slug \o <<"/">>

\* a sitemap that lists a hub for every agency
RECURSIVE SitemapHubUrlsPerAgency(_, _)
SitemapHubUrlsPerAgency(agencies, jurisdiction_slugs_added) ==
    IF agencies = <<>> THEN <<>>
    ELSE <<HubUrl(JurisdictionSlug(agencies[1]))>>
         \o SitemapHubUrlsPerAgency(Tail(agencies), jurisdiction_slugs_added)

\* the hub entries of the sitemap: one for each agency whose jurisdiction
\* slug is not in jurisdiction_slugs_added yet
RECURSIVE SitemapHubUrls(_, _)
SitemapHubUrls(agencies, jurisdiction_slugs_added) ==
    IF agencies = <<>> THEN <<>>
    ELSE LET jurisdiction_slug == JurisdictionSlug(agencies[1])
         IN  IF jurisdiction_slug \notin jurisdiction_slugs_added
             THEN <<HubUrl(jurisdiction_slug)>>
                  \o SitemapHubUrls(Tail(agencies),
                                    jurisdiction_slugs_added \cup {jurisdiction_slug})
             ELSE SitemapHubUrls(Tail(agencies), jurisdiction_slugs_added)

\* the <loc> paths of sitemap.xml: the homepage, the hubs, the records
SitemapUrls(rows) ==
    <<<<"/">>>>
    \o SitemapHubUrls(GroupKeys(AgencyCells(rows)), {})
    \o [i \in 1..Len(rows) |-> PermitUrl(RowJurisdiction(rows[i]), RowPermit(rows[i]))]

NoPermit == <<"NoPermit">>

\* what a step derives for a record: its jurisdiction slug and permit slug
Derivation(step, row) ==
    [step |-> step, agency_short |-> row.agency_short,
     request_type |-> row.request_type,
     jurisdiction_slug |-> RowJurisdiction(row), permit_slug |-> RowPermit(row)]

\* generate_homepage: the jurisdictions list takes self.slugify(row['agency_short'])
\* for each group; the recent_permits list derives both slugs for each record
HomepageDerived(rows) ==
    {[step |-> "homepage_jurisdictions", agency_short |-> a, request_type |-> NoPermit,
      jurisdiction_slug |-> slugify(a), permit_slug |-> NoPermit] : a \in AgencyCells(rows)}
    \cup {Derivation("homepage_permits", rows[i]) : i \in 1..Len(rows)}

\* generate_jurisdiction_hubs: the grouping loop
HubsDerived(rows) == {Derivation("hubs", rows[i]) : i \in 1..Len(rows)}

\* generate_sitemap: the hub loop over the groups, then the record loop
SitemapDerived(rows) ==
    {[step |-> "sitemap_hubs", agency_short |-> a, request_type |-> NoPermit,
      jurisdiction_slug |-> JurisdictionSlug(a), permit_slug |-> NoPermit] :
        a \in AgencyCells(rows)}
    \cup {Derivation("sitemap", rows[i]) : i \in 1..Len(rows)}

-----------------------------------------------------------------------------
(* validate_links.py: the site a live crawl meets *)

\* the paths of the crawled site: the entry point, two pages, one data file
Paths == {"/", "/a/", "/b/", "/sitemap.xml"}

\* link_path.endswith(('.xml', '.txt', '.json'))
EndsWithDataSuffix(path) == path \in {"/sitemap.xml"}

OwnNetlocs == {"permitindex.com", "www.permitindex.com"}

\* the a.href values of a page, as urlparse splits them
Links ==
    {[netloc |-> "permitindex.com", path |-> p] : p \in Paths}
    \cup {[netloc |-> "other.example", path |-> "/"]}

\* what a fetch gives: a response status, or 0 for a raised exception
\* (timeout, network error)
FetchOutcomes == {200, 404, 0}

NoPage == "-"

\* the crawl's variables while another program is the one that runs
CrawlIdle ==
    /\ cpc = "idle"
    /\ pages_to_visit = <<>>
    /\ visited_pages = {}
    /\ link_to_status = <<>>
    /\ broken_links = [p \in Paths |-> <<>>]
    /\ current_path = NoPage
    /\ links = <<>>
    /\ visits = <<>>
    /\ checks = <<>>
    /\ appended = <<>>
    /\ references = [p \in Paths |-> 0]
    /\ failed_fetches = {}
    /\ failed_checks = {}
    /\ discovered_from = <<>>
    /\ guard_fired = FALSE

-----------------------------------------------------------------------------
(* validate_links.py: the output tree a static check meets *)

\* A link is a sequence of tokens: "/" and the pieces of names.  A file is
\* the sequence of its path components below the output directory.

IndexFile == <<"index", ".html">>

\* index.html, a/index.html, a/b/index.html, b.html
FileUniverse ==
    {<<IndexFile>>, <<<<"a">>, IndexFile>>, <<<<"a">>, <<"b">>, IndexFile>>,
     <<<<"b", ".html">>>>}

\* the href values of the pages: "/", "/a/", "/a", "/a/b/", "/b", "/c/",
\* "https://x" and the relative "b/"
Hrefs ==
    {<<"/">>, <<"/", "a", "/">>, <<"/", "a">>, <<"/", "a", "/", "b", "/">>,
     <<"/", "b">>, <<"/", "c", "/">>, <<"https://", "x">>, <<"b", "/">>}

\* output_path.glob("**/*.html")
HtmlFiles(files) == {f \in files : f[Len(f)][Len(f[Len(f)])] = ".html"}

\* href values of the kinds that are not internal references: "http://x",
\* "mailto:x", "tel:1", "#x", "javascript:x"
SkippedHrefs ==
    {<<"http://", "x">>, <<"mailto:", "x">>, <<"tel:", "1">>, <<"#", "x">>,
     <<"javascript:", "x">>}

\* the href attributes the pages of an output tree can hold, in document
\* order: pages of internal references, and pages that mix the other kinds
\* with a root-relative and a relative reference
RefsOf(files) ==
    SeqsUpTo([page : HtmlFiles(files), href : Hrefs], MaxRefs)
    \cup SeqsUpTo([page : HtmlFiles(files),
                   href : SkippedHrefs \cup {<<"/", "c", "/">>, <<"b", "/">>}], MaxRefs)

NoFiles == {}

LocalIdle ==
    /\ output_exists = FALSE
    /\ tree = NoFiles
    /\ refs = <<>>
    /\ lpc = "idle"
    /\ all_links = <<>>
    /\ local_broken = <<>>
    /\ local_ok = "none"
    /\ file_paths = <<>>

MainIdle ==
    /\ mode = "--local"
    /\ PLAYWRIGHT_AVAILABLE = FALSE
    /\ mpc = "idle"
    /\ results = <<>>
    /\ exit_code = -1

SlugIdle ==
    /\ spc = "idle"
    /\ callee = "slugify"
    /\ slug_arg = <<>>
    /\ state_slug = <<>>
    /\ slug_value = <<>>

GenIdle ==
    /\ csv = "ok"
    /\ df = NoTable
    /\ gpc = "idle"
    /\ written = <<>>
    /\ artifacts = {}
    /\ errors = 0
    /\ pages_generated = 0
    /\ hubIdx = 1
    /\ rowIdx = 1
    /\ abort = NoError
    /\ result = -1
    /\ warnings = {}
    /\ skipped = <<>>
    /\ sitemap = <<>>
    /\ derived = {}
    /\ hubs = <<>>
    /\ favicon = "none"
    /\ hub_stats = <<>>

-----------------------------------------------------------------------------
(* generator.py: the run *)

GenInit ==
    /\ csv \in {"ok", "missing", "malformed"}
    /\ df \in (IF csv = "ok" THEN Tables ELSE {NoTable})
    /\ gpc = "load_data"
    /\ written = <<>>
    /\ artifacts = {}
    /\ errors = 0
    /\ pages_generated = 0
    /\ hubIdx = 1
    /\ rowIdx = 1
    /\ abort = NoError
    /\ result = -1
    /\ warnings = {}
    /\ skipped = <<>>
    /\ sitemap = <<>>
    /\ derived = {}
    /\ hubs = <<>>
    /\ favicon = "none"
    /\ hub_stats = <<>>
    /\ CrawlIdle
    /\ LocalIdle
    /\ MainIdle
    /\ SlugIdle

\* an uncaught exception ends the run where it is raised
Crash(exception) ==
    /\ gpc' = "crashed"
    /\ abort' = exception
    /\ result' = 1
    /\ UNCHANGED <<written, artifacts, errors, pages_generated, hubIdx, rowIdx,
                   warnings, skipped, sitemap, derived, hubs, favicon, hub_stats>>

\* a generate_page whose except branch leaves stats['errors'] alone
generate_page_uncounted(output_path, ok) ==
    IF ok
    THEN /\ written' = Append(written, output_path)
         /\ pages_generated' = pages_generated + 1
         /\ UNCHANGED <<errors, skipped>>
    ELSE /\ skipped' = Append(skipped, output_path)
         /\ UNCHANGED <<written, pages_generated, errors>>

\* generate_page: the page is rendered and written, or the exception of the
\* failed render or write is caught and counted
generate_page(output_path, ok) ==
    IF ok
    THEN /\ written' = Append(written, output_path)
         /\ pages_generated' = pages_generated + 1
         /\ UNCHANGED <<errors, skipped>>
    ELSE /\ errors' = errors + 1
         /\ skipped' = Append(skipped, output_path)
         /\ UNCHANGED <<written, pages_generated>>

PageOutcomes == IF errors < MaxFailures THEN {TRUE, FALSE} ELSE {TRUE}

\* load_data: read_csv succeeds, or the run exits with status 1
load_data ==
    /\ gpc = "load_data"
    /\ UNCHANGED <<crawlVars, localVars, mainVars, slugVars>>
    /\ IF csv = "ok"
       THEN /\ gpc' = "homepage"
            /\ UNCHANGED <<abort, result>>
       ELSE /\ gpc' = "exited"
            /\ abort' = Raised(IF csv = "missing" THEN "FileNotFoundError" ELSE "Exception",
                               "permits.csv")
            /\ result' = 1
    /\ UNCHANGED <<csv, df, written, artifacts, errors, pages_generated, hubIdx, rowIdx,
                   warnings, skipped, sitemap, derived, hubs, favicon, hub_stats>>

generate_homepage ==
    /\ gpc = "homepage"
    /\ UNCHANGED <<crawlVars, localVars, mainVars, slugVars>>
    /\ IF HomepageError(df) # NoError
       THEN Crash(HomepageError(df))
       ELSE /\ \E ok \in PageOutcomes : generate_page(HomepagePath, ok)
            /\ derived' = derived \cup HomepageDerived(df.rows)
            /\ gpc' = "hubs"
            /\ UNCHANGED <<artifacts, hubIdx, rowIdx, abort, result, warnings,
                           sitemap, hubs, favicon, hub_stats>>
    /\ UNCHANGED <<csv, df>>

\* generate_jurisdiction_hubs: the grouping, then one hub page per iteration
generate_jurisdiction_hubs ==
    /\ gpc = "hubs"
    /\ UNCHANGED <<crawlVars, localVars, mainVars, slugVars>>
    /\ IF HubsError(df) # NoError
       THEN Crash(HubsError(df))
       ELSE /\ derived' = derived \cup HubsDerived(df.rows)
            /\ IF hubIdx <= Len(HubOrder(df.rows))
               THEN LET jurisdiction_slug == HubOrder(df.rows)[hubIdx]
                    IN  /\ hubs' = (jurisdiction_slug :>
                                        sorted_permits(df, HubPermits(df.rows, jurisdiction_slug)))
                                    @@ hubs
                        /\ hub_stats' = (jurisdiction_slug :>
                                            HubStats(df, HubPermits(df.rows, jurisdiction_slug)))
                                        @@ hub_stats
                        /\ \E ok \in PageOutcomes :
                               generate_page(HubPath(jurisdiction_slug), ok)
                        /\ hubIdx' = hubIdx + 1
                        /\ UNCHANGED <<gpc, artifacts, rowIdx, abort, result>>
               ELSE /\ gpc' = "pages"
                    /\ UNCHANGED <<written, artifacts, errors, pages_generated,
                                   hubIdx, rowIdx, abort, result, skipped, hubs, hub_stats>>
            /\ UNCHANGED <<warnings, sitemap, favicon>>
    /\ UNCHANGED <<csv, df>>

\* generate_transaction_pages: one record per iteration
generate_transaction_pages ==
    /\ gpc = "pages"
    /\ UNCHANGED <<crawlVars, localVars, mainVars, slugVars>>
    /\ IF rowIdx <= Len(df.rows)
       THEN IF PageRowError(df, df.rows[rowIdx]) # NoError
            THEN Crash(PageRowError(df, df.rows[rowIdx]))
            ELSE /\ \E ok \in PageOutcomes :
                        generate_page(RowDetailPath(df.rows[rowIdx]), ok)
                 /\ derived' = derived \cup {Derivation("pages", df.rows[rowIdx])}
                 /\ rowIdx' = rowIdx + 1
                 /\ UNCHANGED <<gpc, artifacts, hubIdx, abort, result, warnings,
                                sitemap, hubs, favicon, hub_stats>>
       ELSE /\ gpc' = "sitemap"
            /\ UNCHANGED <<written, artifacts, errors, pages_generated,
                           hubIdx, rowIdx, abort, result, warnings, skipped,
                           sitemap, derived, hubs, favicon, hub_stats>>
    /\ UNCHANGED <<csv, df>>

generate_sitemap ==
    /\ gpc = "sitemap"
    /\ UNCHANGED <<crawlVars, localVars, mainVars, slugVars>>
    /\ IF SitemapError(df) # NoError
       THEN Crash(SitemapError(df))
       ELSE /\ artifacts' = artifacts \cup {"sitemap.xml"}
            /\ sitemap' = SitemapUrls(df.rows)
            /\ derived' = derived \cup SitemapDerived(df.rows)
            /\ gpc' = "data_json"
            /\ UNCHANGED <<written, errors, pages_generated, hubIdx, rowIdx, abort,
                           result, warnings, skipped, hubs, favicon, hub_stats>>
    /\ UNCHANGED <<csv, df>>

generate_data_json ==
    /\ gpc = "data_json"
    /\ UNCHANGED <<crawlVars, localVars, mainVars, slugVars>>
    /\ artifacts' = artifacts \cup {"data.json"}
    /\ derived' = derived \cup {Derivation("data_json", df.rows[i]) : i \in 1..Len(df.rows)}
    /\ gpc' = "robots"
    /\ UNCHANGED <<csv, df, written, errors, pages_generated, hubIdx, rowIdx, abort, result,
                   warnings, skipped, sitemap, hubs, favicon, hub_stats>>

generate_robots_txt ==
    /\ gpc = "robots"
    /\ UNCHANGED <<crawlVars, localVars, mainVars, slugVars>>
    /\ artifacts' = artifacts \cup {"robots.txt"}
    /\ gpc' = "favicon"
    /\ UNCHANGED <<csv, df, written, errors, pages_generated, hubIdx, rowIdx, abort, result,
                   warnings, skipped, sitemap, derived, hubs, favicon, hub_stats>>

\* copy_favicon_files: no source directory, all files copied, or a copy fails
copy_favicon_files ==
    /\ gpc = "favicon"
    /\ UNCHANGED <<crawlVars, localVars, mainVars, slugVars>>
    /\ \E outcome \in {"skipped", "copied"}
                      \cup (IF errors < MaxFailures THEN {"failed"} ELSE {}) :
          /\ errors' = IF outcome = "failed" THEN errors + 1 ELSE errors
          /\ favicon' = outcome
          /\ warnings' = IF outcome = "skipped"
                         THEN warnings \cup {"static/favicon directory not found"}
                         ELSE warnings
    /\ gpc' = "statistics"
    /\ UNCHANGED <<csv, df, written, artifacts, pages_generated, hubIdx, rowIdx, abort, result,
                   skipped, sitemap, derived, hubs, hub_stats>>

\* a run that reports success whatever the tally
ExitCodeAlwaysZero(tally) == 0

\* the value generate() returns: 0 for an empty error tally, 1 otherwise
ExitCode(tally) == IF tally = 0 THEN 0 ELSE 1

\* print_statistics and the return of generate()
finish ==
    /\ gpc = "statistics"
    /\ UNCHANGED <<crawlVars, localVars, mainVars, slugVars>>
    /\ result' = ExitCode(errors)
    /\ gpc' = "returned"
    /\ UNCHANGED <<csv, df, written, artifacts, errors, pages_generated, hubIdx, rowIdx, abort,
                   warnings, skipped, sitemap, derived, hubs, favicon, hub_stats>>

GenNext ==
    \/ load_data
    \/ generate_homepage
    \/ generate_jurisdiction_hubs
    \/ generate_transaction_pages
    \/ generate_sitemap
    \/ generate_data_json
    \/ generate_robots_txt
    \/ copy_favicon_files
    \/ finish

SpecGen == GenInit /\ [][GenNext]_vars

-----------------------------------------------------------------------------
(* generator.py: one call of slugify or of generate_url_slug *)

\* the characters the argument is spelled with: letters of a mapped
\* abbreviation, a letter of neither case of it, the three separators, and
\* a character slugify removes
SlugAlphabet == {"C", "A", "z", " ", "-", "_", "!"}

\* "ZZ Dept", "a - b", "a--b"
SlugExamples ==
    {<<"Z", "Z", " ", "D", "e", "p", "t">>, <<"a", " ", "-", " ", "b">>,
     <<"a", "-", "-", "b">>}

SlugTexts == SeqsUpTo(SlugAlphabet, MaxLen) \cup SlugExamples

SlugInit ==
    /\ spc = "call"
    /\ callee \in {"slugify", "generate_url_slug"}
    /\ slug_arg \in SlugTexts
    /\ state_slug = <<>>
    /\ slug_value = <<>>
    /\ GenIdle
    /\ CrawlIdle
    /\ LocalIdle
    /\ MainIdle

call_slugify ==
    /\ spc = "call"
    /\ callee = "slugify"
    /\ slug_value' = slugify(slug_arg)
    /\ spc' = "returned"
    /\ UNCHANGED <<callee, slug_arg, state_slug>>
    /\ UNCHANGED <<genVars, crawlVars, localVars, mainVars>>

\* generate_url_slug(slug_arg, request_type): a blank agency_short is truthy and
\* has no first token, so split()[0] raises IndexError
call_generate_url_slug ==
    /\ spc = "call"
    /\ callee = "generate_url_slug"
    /\ IF slug_arg # <<>> /\ ~HasToken(slug_arg)
       THEN /\ spc' = "raised"
            /\ UNCHANGED <<state_slug, slug_value>>
       ELSE /\ state_slug' = JurisdictionSlug(slug_arg)
            /\ \E request_type \in RequestValues \ {NaN} :
                  slug_value' = generate_url_slug(slug_arg, request_type)
            /\ spc' = "returned"
    /\ UNCHANGED <<callee, slug_arg>>
    /\ UNCHANGED <<genVars, crawlVars, localVars, mainVars>>

SlugNext ==
    \/ call_slugify
    \/ call_generate_url_slug

SpecSlug == SlugInit /\ [][SlugNext]_vars

-----------------------------------------------------------------------------
(* validate_links.py: validate_production_links *)

InSeq(x, q) == \E i \in 1..Len(q) : q[i] = x

CrawlInit ==
    /\ cpc = "loop"
    /\ pages_to_visit = <<"/">>
    /\ visited_pages = {}
    /\ link_to_status = <<>>
    /\ broken_links = [p \in Paths |-> <<>>]
    /\ current_path = NoPage
    /\ links = <<>>
    /\ visits = <<>>
    /\ checks = <<>>
    /\ appended = <<>>
    /\ references = [p \in Paths |-> 0]
    /\ failed_fetches = {}
    /\ failed_checks = {}
    /\ discovered_from = <<>>
    /\ guard_fired = FALSE
    /\ GenIdle
    /\ LocalIdle
    /\ MainIdle
    /\ SlugIdle

\* parsed.netloc and parsed.netloc not in ['permitindex.com', 'www.permitindex.com']
IsExternal(link) == link.netloc # "" /\ link.netloc \notin OwnNetlocs

\* a crawl without the memo: every reference is checked anew
AlreadyCheckedNever(memo, link_path) == FALSE

\* link_path in link_to_status
AlreadyChecked(memo, link_path) == link_path \in DOMAIN memo

\* an append guard that does not look at visited_pages
ShouldEnqueueVisited(visited, queue, link_path) ==
    /\ ~InSeq(link_path, queue)
    /\ ~EndsWithDataSuffix(link_path)

\* link_path not in visited_pages and link_path not in pages_to_visit,
\* and not link_path.endswith(('.xml', '.txt', '.json'))
ShouldEnqueue(visited, queue, link_path) ==
    /\ link_path \notin visited
    /\ ~InSeq(link_path, queue)
    /\ ~EndsWithDataSuffix(link_path)

\* a crawl that forgets to record the page it visits
MarkVisitedForgotten(visited, path) == visited

\* visited_pages.add(current_path)
MarkVisited(visited, path) == visited \cup {path}

\* a memo that keeps the status of successful checks only
RememberSuccess(memo, link_path, status) ==
    IF status = 200 THEN (link_path :> status) @@ memo ELSE memo

\* link_to_status[link_path] = status
Remember(memo, link_path, status) == (link_path :> status) @@ memo

\* broken_links[page].append(link_path)
RecordBroken(broken, page, link_path) ==
    [broken EXCEPT ![page] = Append(@, link_path)]

\* a while test without the limit on the pages visited
BelowCapAlways(visited) == TRUE

\* len(visited_pages) < 20, the second half of the while test
BelowCap(visited) == Cardinality(visited) < VisitCap

\* a pop that takes the page appended last
PopLast(queue) ==
    [page |-> queue[Len(queue)], rest |-> SubSeq(queue, 1, Len(queue) - 1)]

\* pages_to_visit.pop(0)
Pop(queue) == [page |-> Head(queue), rest |-> Tail(queue)]

\* a memo hit that reports nothing
MemoHitSilent(broken, memo, page, link_path) == broken

\* if link_to_status[link_path] != 200: broken_links[current_path].append(link_path)
MemoHit(broken, memo, page, link_path) ==
    IF memo[link_path] # 200 THEN RecordBroken(broken, page, link_path) ELSE broken

\* one iteration of the while loop up to the for loop: dequeue, skip a page
\* already visited, mark it visited, load it, read its links
VisitPage ==
    /\ cpc = "loop"
    /\ UNCHANGED <<genVars, localVars, mainVars, slugVars>>
    /\ pages_to_visit # <<>>
    /\ BelowCap(visited_pages)
    /\ LET path == Pop(pages_to_visit).page
       IN  /\ pages_to_visit' = Pop(pages_to_visit).rest
           /\ current_path' = path
           /\ IF path \in visited_pages
              THEN /\ guard_fired' = TRUE
                   /\ UNCHANGED <<cpc, visited_pages, links, visits, failed_fetches>>
              ELSE /\ visited_pages' = MarkVisited(visited_pages, path)
                   /\ visits' = Append(visits, path)
                   /\ UNCHANGED guard_fired
                   /\ \E status \in FetchOutcomes :
                        IF status = 200
                        THEN /\ \E found \in SeqsUpTo(Links, MaxLinks) : links' = found
                             /\ cpc' = "links"
                             /\ UNCHANGED failed_fetches
                        ELSE /\ failed_fetches' = failed_fetches \cup {path}
                             /\ UNCHANGED <<cpc, links>>
    /\ UNCHANGED <<link_to_status, broken_links, checks, appended, references,
                   failed_checks, discovered_from>>

\* a for-loop body that fetches every internal reference and appends every
\* page that answers 200, with neither the memo nor the visited/pending guard
CheckLinkUnguarded ==
    /\ cpc = "links"
    /\ UNCHANGED <<genVars, localVars, mainVars, slugVars>>
    /\ links # <<>>
    /\ links' = Tail(links)
    /\ LET link_path == Head(links).path
       IN  IF IsExternal(Head(links))
           THEN UNCHANGED <<link_to_status, broken_links, pages_to_visit,
                            checks, appended, references, failed_fetches,
                            failed_checks, discovered_from>>
           ELSE /\ references' = [references EXCEPT ![link_path] = @ + 1]
                /\ \E status \in FetchOutcomes :
                        /\ checks' = Append(checks, link_path)
                        /\ link_to_status' = Remember(link_to_status, link_path, status)
                        /\ IF status # 200
                           THEN /\ broken_links' =
                                      RecordBroken(broken_links, current_path, link_path)
                                /\ failed_fetches' = failed_fetches \cup {link_path}
                                /\ failed_checks' = failed_checks \cup {link_path}
                                /\ UNCHANGED <<pages_to_visit, appended, discovered_from>>
                           ELSE /\ pages_to_visit' = Append(pages_to_visit, link_path)
                                /\ appended' = Append(appended, link_path)
                                /\ discovered_from' =
                                       (link_path :> current_path) @@ discovered_from
                                /\ UNCHANGED <<broken_links, failed_fetches, failed_checks>>
    /\ UNCHANGED <<cpc, visited_pages, current_path, visits, guard_fired>>

\* one iteration of the for loop over the links of the current page
CheckLink ==
    /\ cpc = "links"
    /\ UNCHANGED <<genVars, localVars, mainVars, slugVars>>
    /\ links # <<>>
    /\ links' = Tail(links)
    /\ LET link == Head(links)
           link_path == link.path
       IN  IF IsExternal(link)
           THEN UNCHANGED <<link_to_status, broken_links, pages_to_visit,
                            checks, appended, references, failed_fetches,
                            failed_checks, discovered_from>>
           ELSE /\ references' = [references EXCEPT ![link_path] = @ + 1]
                /\ IF AlreadyChecked(link_to_status, link_path)
                   THEN /\ broken_links' =
                              MemoHit(broken_links, link_to_status, current_path, link_path)
                        /\ UNCHANGED <<link_to_status, pages_to_visit, checks,
                                       appended, failed_fetches, failed_checks,
                                       discovered_from>>
                   ELSE \E status \in FetchOutcomes :
                        /\ checks' = Append(checks, link_path)
                        /\ link_to_status' = Remember(link_to_status, link_path, status)
                        /\ IF status # 200
                           THEN /\ broken_links' =
                                      RecordBroken(broken_links, current_path, link_path)
                                /\ failed_fetches' = failed_fetches \cup {link_path}
                                /\ failed_checks' = failed_checks \cup {link_path}
                                /\ UNCHANGED <<pages_to_visit, appended, discovered_from>>
                           ELSE /\ IF ShouldEnqueue(visited_pages, pages_to_visit, link_path)
                                   THEN /\ pages_to_visit' = Append(pages_to_visit, link_path)
                                        /\ appended' = Append(appended, link_path)
                                        /\ discovered_from' =
                                               (link_path :> current_path) @@ discovered_from
                                   ELSE UNCHANGED <<pages_to_visit, appended,
                                                    discovered_from>>
                                /\ UNCHANGED <<broken_links, failed_fetches, failed_checks>>
    /\ UNCHANGED <<cpc, visited_pages, current_path, visits, guard_fired>>

\* the for loop is over: back to the while test
LinksDone ==
    /\ cpc = "links"
    /\ UNCHANGED <<genVars, localVars, mainVars, slugVars>>
    /\ links = <<>>
    /\ cpc' = "loop"
    /\ UNCHANGED <<pages_to_visit, visited_pages, link_to_status, broken_links,
                   current_path, links, visits, checks, appended, references,
                   failed_fetches, failed_checks, discovered_from, guard_fired>>

\* the while test fails: the browser is closed and the results are reported
CrawlReport ==
    /\ cpc = "loop"
    /\ UNCHANGED <<genVars, localVars, mainVars, slugVars>>
    /\ ~(pages_to_visit # <<>> /\ BelowCap(visited_pages))
    /\ cpc' = "done"
    /\ UNCHANGED <<pages_to_visit, visited_pages, link_to_status, broken_links,
                   current_path, links, visits, checks, appended, references,
                   failed_fetches, failed_checks, discovered_from, guard_fired>>

\* the value validate_production_links returns: not broken_links
ProductionOk == \A p \in Paths : broken_links[p] = <<>>

CrawlNext ==
    \/ VisitPage
    \/ CheckLink
    \/ LinksDone
    \/ CrawlReport

SpecCrawl == CrawlInit /\ [][CrawlNext]_vars

\* the loop runs on: no iteration is postponed forever
SpecCrawlFair == SpecCrawl /\ WF_vars(CrawlNext)

-----------------------------------------------------------------------------
(* validate_links.py: extract_links_from_html and validate_local_links *)

\* a startswith tuple without 'tel:'
SkippedPrefixesNoTel == {"http://", "https://", "mailto:", "#", "javascript:"}

\* match.startswith(('http://', 'https://', 'mailto:', 'tel:', '#', 'javascript:'))
SkippedPrefixes == {"http://", "https://", "mailto:", "tel:", "#", "javascript:"}

\* link.strip('/')
StripSlashes(link) == Reverse(DropLeading(Reverse(DropLeading(link, {"/"})), {"/"}))

\* the components of a path string, as pathlib splits it
RECURSIVE Components(_)
Components(path) ==
    LET rest == DropLeading(path, {"/"})
        first == TakeUntil(rest, {"/"})
    IN  IF rest = <<>> THEN <<>>
        ELSE <<first>> \o Components(SubSeq(rest, Len(first) + 1, Len(rest)))

RECURSIVE DirString(_)
DirString(components) ==
    IF components = <<>> THEN <<>>
    ELSE components[1] \o <<"/">> \o DirString(Tail(components))

\* f"/{rel_path.parent}/": the parent of a file of the root is "."
BasePath(file) ==
    IF Len(file) = 1 THEN <<"/", ".", "/">>
    ELSE <<"/">> \o DirString(SubSeq(file, 1, Len(file) - 1))

\* urlparse(urljoin(base_path, match)).path for a relative match without
\* dot segments: the directory of the base, its "." dropped, then the match
UrlJoinPath(base_path, match) ==
    <<"/">> \o DirString(SelectSeq(Components(base_path), LAMBDA c : c # <<".">>)) \o match

\* extract_links_from_html
RECURSIVE extract_links_from_html(_, _)
extract_links_from_html(matches, base_path) ==
    IF matches = <<>> THEN {}
    ELSE LET match == matches[1]
             others == extract_links_from_html(Tail(matches), base_path)
         IN  IF match[1] \in SkippedPrefixes THEN others
             ELSE IF match[1] = "/" THEN others \cup {match}
             ELSE IF base_path # <<>> THEN others \cup {UrlJoinPath(base_path, match)}
             ELSE others

\* the href attributes of one page, in document order
RECURSIVE MatchesOf(_, _)
MatchesOf(file, hrefs) ==
    IF hrefs = <<>> THEN <<>>
    ELSE (IF hrefs[1].page = file THEN <<hrefs[1].href>> ELSE <<>>)
         \o MatchesOf(file, Tail(hrefs))

IsDirectory(files, path) ==
    \/ path = <<>>
    \/ \E f \in files : Len(f) > Len(path) /\ SubSeq(f, 1, Len(path)) = path

\* Path.exists(): true of a file and of a directory
Exists(files, path) == path \in files \/ IsDirectory(files, path)

\* the file_path a link is normalized to
FilePath(files, link) ==
    IF link = <<"/">> THEN <<IndexFile>>
    ELSE IF link[Len(link)] = "/" THEN Components(StripSlashes(link)) \o <<IndexFile>>
    ELSE LET literal == Components(StripSlashes(link))
             with_html == Components(StripSlashes(link) \o <<".html">>)
             dir_index == literal \o <<IndexFile>>
         IN  IF Exists(files, literal) THEN literal
             ELSE IF Exists(files, with_html) THEN with_html
             ELSE dir_index

\* a normalization that tries the index file of the directory before the
\* path with .html
FilePathsIndexFirst(files, link) ==
    IF link = <<"/">> THEN <<<<IndexFile>>>>
    ELSE IF link[Len(link)] = "/"
         THEN <<Components(StripSlashes(link)) \o <<IndexFile>>>>
    ELSE LET literal == Components(StripSlashes(link))
             with_html == Components(StripSlashes(link) \o <<".html">>)
             dir_index == literal \o <<IndexFile>>
         IN  IF Exists(files, literal) THEN <<literal>>
             ELSE IF Exists(files, dir_index) THEN <<literal, dir_index>>
             ELSE <<literal, dir_index, with_html>>

\* the values file_path is assigned for a link, in order (lines 106, 108,
\* 111, 114, 117); the last one is the path tested on line 120
FilePaths(files, link) ==
    IF link = <<"/">> THEN <<<<IndexFile>>>>
    ELSE IF link[Len(link)] = "/"
         THEN <<Components(StripSlashes(link)) \o <<IndexFile>>>>
    ELSE LET literal == Components(StripSlashes(link))
             with_html == Components(StripSlashes(link) \o <<".html">>)
             dir_index == literal \o <<IndexFile>>
         IN  IF Exists(files, literal) THEN <<literal>>
             ELSE IF Exists(files, with_html) THEN <<literal, with_html>>
             ELSE <<literal, with_html, dir_index>>

\* if not file_path.exists()
IsBroken(files, link) == ~Exists(files, FilePath(files, link))

\* the inner loop of step 2: the links of one file in the iteration order of
\* the set, each broken one appended to the list of the file
RECURSIVE BrokenOf(_, _, _)
BrokenOf(files, linkset, list) ==
    IF linkset = {} THEN list
    ELSE LET link == CHOOSE l \in linkset : TRUE
         IN  BrokenOf(files, linkset \ {link},
                      IF IsBroken(files, link) THEN Append(list, link) ELSE list)

\* step 1: all_links[str(rel_path)] = links
AllLinks(files, hrefs) ==
    [file \in HtmlFiles(files) |->
        extract_links_from_html(MatchesOf(file, hrefs), BasePath(file))]

\* step 2: broken_links, a defaultdict that holds a key once a link was appended
BrokenLinks(files, links_of) ==
    LET lists == [file \in DOMAIN links_of |-> BrokenOf(files, links_of[file], <<>>)]
    IN  [file \in {f \in DOMAIN lists : lists[f] # <<>>} |-> lists[file]]

\* validate_local_links as a whole: what it leaves and what it returns
ValidateLocal ==
    IF ~output_exists
    THEN /\ local_ok' = "False"
         /\ UNCHANGED <<all_links, local_broken, file_paths>>
    ELSE /\ all_links' = AllLinks(tree, refs)
         /\ local_broken' = BrokenLinks(tree, all_links')
         /\ file_paths' = [link \in UNION {all_links'[f] : f \in DOMAIN all_links'} |->
                               FilePaths(tree, link)]
         /\ local_ok' = IF DOMAIN local_broken' = {} THEN "True" ELSE "False"

validate_local_links ==
    /\ lpc = "call"
    /\ ValidateLocal
    /\ lpc' = "returned"
    /\ UNCHANGED <<output_exists, tree, refs>>
    /\ UNCHANGED <<genVars, crawlVars, mainVars, slugVars>>

LocalInit ==
    /\ output_exists \in BOOLEAN
    /\ tree \in (IF output_exists THEN SUBSET FileUniverse ELSE {NoFiles})
    /\ refs \in RefsOf(tree)
    /\ lpc = "call"
    /\ all_links = <<>>
    /\ local_broken = <<>>
    /\ local_ok = "none"
    /\ file_paths = <<>>
    /\ GenIdle
    /\ CrawlIdle
    /\ MainIdle
    /\ SlugIdle

SpecLocal == LocalInit /\ [][validate_local_links]_vars

-----------------------------------------------------------------------------
(* validate_links.py: main *)

Modes == {"--local", "--production", "--both", "--help"}

\* the output trees main() is run on: a clean one, one with a link to a
\* missing page, one with a link to a directory that has no index file
MainSites ==
    {[tree |-> {<<IndexFile>>, <<<<"a">>, IndexFile>>},
      refs |-> <<[page |-> <<IndexFile>>, href |-> <<"/", "a", "/">>]>>],
     [tree |-> {<<IndexFile>>},
      refs |-> <<[page |-> <<IndexFile>>, href |-> <<"/", "c", "/">>]>>],
     [tree |-> {<<IndexFile>>, <<<<"a">>, <<"b">>, IndexFile>>},
      refs |-> <<[page |-> <<IndexFile>>, href |-> <<"/", "a">>]>>]}

\* the broken_links a finished crawl leaves: none, or one broken link
CrawlOutcomes ==
    {[p \in Paths |-> <<>>], [p \in Paths |-> IF p = "/" THEN <<"/a/">> ELSE <<>>]}

MainInit ==
    /\ mode \in Modes
    /\ PLAYWRIGHT_AVAILABLE \in BOOLEAN
    /\ mpc = "local"
    /\ results = <<>>
    /\ exit_code = -1
    /\ output_exists \in BOOLEAN
    /\ \E site \in MainSites :
          /\ tree = (IF output_exists THEN site.tree ELSE NoFiles)
          /\ refs = (IF output_exists THEN site.refs ELSE <<>>)
    /\ lpc = "idle"
    /\ all_links = <<>>
    /\ local_broken = <<>>
    /\ local_ok = "none"
    /\ file_paths = <<>>
    /\ GenIdle
    /\ CrawlIdle
    /\ SlugIdle

\* any(status is False for name, status in results)
AnyFailed(pairs) == \E i \in 1..Len(pairs) : pairs[i][2] = "False"

\* if mode in ['--local', '--both']: the local validation and its result
main_local ==
    /\ mpc = "local"
    /\ IF mode \in {"--local", "--both"}
       THEN /\ ValidateLocal
            /\ results' = Append(results, <<"Local Build", local_ok'>>)
       ELSE UNCHANGED <<all_links, local_broken, local_ok, file_paths, results>>
    /\ mpc' = "production"
    /\ UNCHANGED <<output_exists, tree, refs, lpc, mode, PLAYWRIGHT_AVAILABLE, exit_code>>
    /\ UNCHANGED <<genVars, crawlVars, slugVars>>

\* if mode in ['--production', '--both']: the crawl, run to its end, and
\* its result; or the None of a crawl skipped for want of Playwright
main_production ==
    /\ mpc = "production"
    /\ IF mode \in {"--production", "--both"}
       THEN IF PLAYWRIGHT_AVAILABLE
            THEN /\ broken_links' \in CrawlOutcomes
                 /\ results' = Append(results,
                        <<"Production Site", IF ProductionOk' THEN "True" ELSE "False">>)
            ELSE /\ results' = Append(results, <<"Production Site", "None">>)
                 /\ UNCHANGED broken_links
       ELSE UNCHANGED <<broken_links, results>>
    /\ mpc' = "summary"
    /\ UNCHANGED <<mode, PLAYWRIGHT_AVAILABLE, exit_code, localVars, genVars, slugVars>>
    /\ UNCHANGED <<cpc, pages_to_visit, visited_pages, link_to_status, current_path,
                   links, visits, checks, appended, references, failed_fetches,
                   failed_checks, discovered_from, guard_fired>>

\* the final summary and sys.exit
main_exit ==
    /\ mpc = "summary"
    /\ exit_code' = IF results # <<>> /\ AnyFailed(results) THEN 1 ELSE 0
    /\ mpc' = "exited"
    /\ UNCHANGED <<mode, PLAYWRIGHT_AVAILABLE, results, localVars, genVars, crawlVars, slugVars>>

MainNext ==
    \/ main_local
    \/ main_production
    \/ main_exit

SpecMain == MainInit /\ [][MainNext]_vars

-----------------------------------------------------------------------------
(* Properties of the live crawl *)

NoRepeats(q) == \A i, j \in 1..Len(q) : i < j => q[i] # q[j]

Count(x, q) == Cardinality({i \in 1..Len(q) : q[i] = x})

\* C3: the crawl loop terminates on every link graph, cyclic ones included,
\* and no path is added to visited_pages (visited as a page) more than once.
C3_CrawlTerminatesVisitingOnce ==
    /\ <>(cpc = "done")
    /\ [](NoRepeats(visits))

\* C3 witness: a cycle was crawled to its end: "/" links to "/a/", "/a/"
\* links back to "/", both were visited, and the loop is over
C3_Witness ==
    /\ cpc = "done"
    /\ visits = <<"/", "/a/">>
    /\ appended = <<"/a/">>
    /\ references["/"] >= 1

\* C4: the link check of a path is fetched at most once in a run, however
\* many references to the path the crawl meets.
C4_EachLinkCheckedOnce == NoRepeats(checks)

\* C4 witness: a path with a failed check is listed as broken on two
\* different pages after a single fetch
C4_Witness ==
    \E p \in Paths :
        /\ references[p] >= 2
        /\ Count(p, checks) = 1
        /\ link_to_status[p] # 200
        /\ \E pg \in Paths : Count(p, broken_links[pg]) >= 1
        /\ \E pg1, pg2 \in Paths : pg1 # pg2 /\ InSeq(p, broken_links[pg1])
                                            /\ InSeq(p, broken_links[pg2])

\* C5: the pending queue never holds a path twice, and no path is appended
\* to it more than once in a run.
C5_NoPathQueuedTwice ==
    /\ NoRepeats(pages_to_visit)
    /\ NoRepeats(appended)

\* C5 witness: a path was appended once although it was met three times,
\* while pending and after its visit
C5_Witness ==
    \E p \in Paths :
        /\ Count(p, appended) = 1
        /\ references[p] >= 3
        /\ p \in visited_pages
        /\ cpc = "done"

\* C6: every failed fetch, of a dequeued page or of a link, is recorded in
\* broken_links.
C6_EveryFailedFetchRecorded ==
    \A p \in failed_fetches : \E pg \in Paths : InSeq(p, broken_links[pg])

-----------------------------------------------------------------------------
(* Properties of the generator run *)

ValidRow(row) == ~IsNaN(row.agency_short) /\ ~IsNaN(row.request_type)

SamePage(r1, r2) ==
    /\ ValidRow(r1) /\ ValidRow(r2)
    /\ RowJurisdiction(r1) = RowJurisdiction(r2)
    /\ RowPermit(r1) = RowPermit(r2)

\* two records of the table derive the same (jurisdiction slug, permit slug)
DuplicatePair(rows) ==
    \E i, j \in 1..Len(rows) : i < j /\ SamePage(rows[i], rows[j])

\* the detail page of one record was written and then written again for another
DetailOverwritten ==
    \E i, j \in 1..Len(written) :
        /\ i < j
        /\ written[i] = written[j]
        /\ \E r \in 1..Len(df.rows) : written[i] = RowDetailPath(df.rows[r])

\* C1: when two records of the input derive the same (jurisdiction slug,
\* permit slug) pair, the build fails with a duplicate-page error: the run
\* never returns, and never writes one record's detail page over the other's.
C1_DuplicatePairFailsBuild ==
    (csv = "ok" /\ DuplicatePair(df.rows)) =>
        /\ gpc # "returned"
        /\ ~DetailOverwritten

\* C2: within one run no output path is written by more than one
\* generate_page call.
C2_EachPathWrittenOnce ==
    \A i, j \in 1..Len(written) : i < j => written[i] # written[j]

\* the columns the input must have
RequiredColumns ==
    {"agency_short", "agency_full", "request_type", "cost",
     "location_applicability", "online_available", "api_available"}

\* the run was ended by an input error: the input file is missing, a
\* required column is missing, or a required cell is empty
EndedWithInputError ==
    /\ gpc \in {"crashed", "exited"}
    /\ \/ abort.exc = "FileNotFoundError"
       \/ abort.exc = "KeyError" /\ abort.at \in RequiredColumns
       \/ abort.exc = "AttributeError" /\ abort.at \in RequiredColumns

\* C10: a run that ends with an input error (input file missing, required
\* column missing, required field empty) has written no output: no page by
\* generate_page, no sitemap.xml, no data.json, no robots.txt.
C10_InputErrorBeforeAnyOutput ==
    EndedWithInputError => (written = <<>> /\ artifacts = {} /\ pages_generated = 0)

\* C10 witness: the second record's request_type cell is empty; the run has
\* walked the first record and then ended on the second
C10_Witness ==
    /\ gpc = "crashed"
    /\ abort = Raised("AttributeError", "request_type")
    /\ Len(df.rows) = 2
    /\ ValidRow(df.rows[1])
    /\ written = <<>>

-----------------------------------------------------------------------------
(* Properties of the static check and of main *)

\* the files a reference may resolve to: "/" the root index file, a
\* trailing-slash reference the index file of that directory, any other
\* reference the literal file, the same path with the page extension, or the
\* index file under the directory of that name
Candidates(link) ==
    IF link = <<"/">> THEN {<<IndexFile>>}
    ELSE IF link[Len(link)] = "/" THEN {Components(StripSlashes(link)) \o <<IndexFile>>}
    ELSE {Components(StripSlashes(link)),
          Components(StripSlashes(link) \o <<".html">>),
          Components(StripSlashes(link)) \o <<IndexFile>>}

\* none of the candidates of the reference is an emitted file
Dangling(files, link) == Candidates(link) \cap files = {}

Reported(file, link) == file \in DOMAIN local_broken /\ InSeq(link, local_broken[file])

\* C8: in static mode an internal reference is reported as dangling if and
\* only if none of its normalized candidates is an emitted file; a reference
\* whose target exists only as a directory without an index file is dangling.
C8_ReportedIffNoCandidateEmitted ==
    (lpc = "returned" /\ output_exists) =>
        \A file \in DOMAIN all_links : \A link \in all_links[file] :
            Reported(file, link) <=> Dangling(tree, link)

\* C9: validate_local_links examines every reference of every emitted page
\* in one pass; its result maps each page that has at least one dangling
\* reference to exactly the set of its dangling references, each listed once,
\* and a page with no dangling reference has no entry.
C9_ResultGroupsEveryDanglingReference ==
    (lpc = "returned" /\ output_exists) =>
        \A file \in HtmlFiles(tree) :
            LET dangling == {link \in all_links[file] : Dangling(tree, link)}
            IN  IF dangling = {} THEN file \notin DOMAIN local_broken
                ELSE /\ file \in DOMAIN local_broken
                     /\ {local_broken[file][i] : i \in 1..Len(local_broken[file])} = dangling
                     /\ NoRepeats(local_broken[file])

LocalSelected == mode \in {"--local", "--both"}

ProductionSelected == mode \in {"--production", "--both"}

\* every selected mode was checked, and none of them found a dangling reference
SelectedModesClean ==
    /\ LocalSelected => (output_exists /\ DOMAIN local_broken = {})
    /\ ProductionSelected => (PLAYWRIGHT_AVAILABLE /\ ProductionOk)

\* C7: main() exits with code 0 if and only if no dangling reference was
\* found in any of the selected modes, and non-zero otherwise; it does not
\* exit 0 when a selected mode was not checked, and does not exit non-zero
\* when no dangling reference exists.
C7_ExitZeroIffSelectedModesClean ==
    mpc = "exited" => (exit_code = 0 <=> SelectedModesClean)

-----------------------------------------------------------------------------
(* Properties of the slug functions *)

\* C15: for every non-empty agency_short the jurisdiction slug is computed
\* from its first whitespace-delimited token only: the canonical name when
\* the token is a key of the fixed table, otherwise the slug of that token
\* alone, never of the full agency_short string.
C15_JurisdictionSlugFromFirstToken ==
    (spc = "returned" /\ callee = "generate_url_slug" /\ HasToken(slug_arg)) =>
        LET token == FirstToken(slug_arg)
        IN  state_slug = (IF token \in DOMAIN state_map THEN state_map[token]
                          ELSE slugify(token))

\* C15 witness: an agency name of several tokens whose first token is not in
\* the table got the slug of that token, which is not the slug of the name
C15_Witness ==
    /\ spc = "returned"
    /\ callee = "generate_url_slug"
    /\ slug_arg \in SeqsUpTo(SlugAlphabet, MaxLen)
    /\ FirstToken(slug_arg) \notin DOMAIN state_map
    /\ state_slug = slugify(FirstToken(slug_arg))
    /\ state_slug # slugify(slug_arg)
    /\ state_slug # <<>>

ZZDept == <<"Z", "Z", " ", "D", "e", "p", "t">>

\* C16, as stated: the jurisdiction slug of "ZZ Dept", whose first token is
\* not in the abbreviation table, is the slug of the whole agency string,
\* "zz-dept".
C16_FallbackSlugOfWholeString ==
    (spc = "returned" /\ callee = "generate_url_slug" /\ slug_arg = ZZDept) =>
        state_slug = <<"z", "z", "-", "d", "e", "p", "t">>

\* C16, amended: the jurisdiction slug of "ZZ Dept" is the slug of its first
\* token, "zz".
C16_FallbackSlugOfFirstToken ==
    (spc = "returned" /\ callee = "generate_url_slug" /\ slug_arg = ZZDept) =>
        state_slug = <<"z", "z">>

\* C16 witness: generate_url_slug has returned for "ZZ Dept"
C16_Witness ==
    /\ spc = "returned"
    /\ callee = "generate_url_slug"
    /\ slug_arg = ZZDept
    /\ state_slug = <<"z", "z">>

\* lowercase alphanumerics and hyphens only, no hyphen at either end, no two
\* hyphens in a row
WellFormedSlug(s) ==
    /\ \A i \in 1..Len(s) :
          \/ \E k \in 1..Len(LowerLetters) : s[i] = LowerLetters[k]
          \/ s[i] \in Digits
          \/ s[i] = "-"
    /\ s # <<>> => (s[1] # "-" /\ s[Len(s)] # "-")
    /\ \A i \in 1..(Len(s) - 1) : ~(s[i] = "-" /\ s[i + 1] = "-")

\* C17: for every request_type string the permit slug returned by slugify
\* contains only lowercase alphanumerics and hyphens, has no leading or
\* trailing hyphen, and has no two consecutive hyphens.
C17_PermitSlugWellFormed ==
    (spc = "returned" /\ callee = "slugify") => WellFormedSlug(slug_value)

\* the cell of a required column is empty in the record
EmptyCell(row, column) ==
    \/ column = "agency_short" /\ IsNaN(row.agency_short)
    \/ column = "request_type" /\ IsNaN(row.request_type)
    \/ column \in row.empty

\* a required column is missing from the table, or a record has an empty
\* cell in one
MissingRequiredField(table) ==
    \E column \in RequiredColumns :
        \/ column \notin table.columns
        \/ \E i \in 1..Len(table.rows) : EmptyCell(table.rows[i], column)

\* C11: if a required column is missing from the input, or a record has an
\* empty cell in a required column, the build fails: no run on such an input
\* completes successfully.
C11_MissingRequiredFieldFailsBuild ==
    (csv = "ok" /\ MissingRequiredField(df)) => ~(gpc = "returned" /\ result = 0)

-----------------------------------------------------------------------------
(* Properties of a build on an input with extra columns *)

\* the pages a run on these records writes when no template fails
PagesOf(rows) ==
    <<HomepagePath>>
    \o [k \in 1..Len(HubOrder(rows)) |-> HubPath(HubOrder(rows)[k])]
    \o [i \in 1..Len(rows) |-> RowDetailPath(rows[i])]

ExtraColumnsWarning == "extra columns"

HasExtraColumns(table) ==
    Columns \subseteq table.columns /\ table.columns \ Columns # {}

\* C12: an input that has every required column and extra columns besides is
\* accepted: the run does not crash, it returns 0 and writes the pages of its
\* records when no template fails, and it has printed a warning about the
\* extra columns.
C12_ExtraColumnsAcceptedWithWarning ==
    (csv = "ok" /\ HasExtraColumns(df)) =>
        /\ gpc # "crashed"
        /\ gpc = "returned" =>
              /\ errors = 0 => (result = 0 /\ written = PagesOf(df.rows))
              /\ ExtraColumnsWarning \in warnings

-----------------------------------------------------------------------------
(* Properties of a run in which a page fails *)

\* no step of a run on this table raises
NoStepRaises(table) ==
    /\ HomepageError(table) = NoError
    /\ HubsError(table) = NoError
    /\ \A i \in 1..Len(table.rows) : PageRowError(table, table.rows[i]) = NoError
    /\ SitemapError(table) = NoError

AllArtifacts == {"sitemap.xml", "data.json", "robots.txt"}

PageFailed == skipped # <<>>

\* the end of a run in which a page failed: not a crash, and every page of
\* the input was either written or skipped, the sitemap, data.json and
\* robots.txt were written, and the result is 1
AfterPageFailure ==
    (PageFailed /\ gpc \in {"crashed", "returned"} /\ NoStepRaises(df)) =>
        /\ gpc = "returned"
        /\ LET pages == PagesOf(df.rows)
           IN  /\ Len(written) + Len(skipped) = Len(pages)
               /\ \A k \in 1..Len(pages) :
                     Count(pages[k], written) + Count(pages[k], skipped)
                         = Count(pages[k], pages)
        /\ AllArtifacts \subseteq artifacts
        /\ result = 1

\* C13: a failure inside generate_page skips that page only and adds one to
\* the error tally, so that up to the favicon step the tally is the number of
\* pages skipped and no skipped page counts as generated; the run does not
\* crash, and when it returns every page of the input was either written or
\* skipped, the sitemap, data.json and robots.txt were written, and the result
\* is 1, not 0.
C13_PageFailureSkipsOnlyThatPage ==
    (csv = "ok" /\ PageFailed) =>
        /\ gpc \notin {"statistics", "returned"} => errors = Len(skipped)
        /\ errors \in {Len(skipped), Len(skipped) + 1}
        /\ pages_generated = Len(written)
        /\ AfterPageFailure

\* a run that skipped the homepage, wrote the hub and detail pages after it,
\* and returned 1
C13_Witness ==
    /\ gpc = "returned"
    /\ NoStepRaises(df)
    /\ skipped = <<HomepagePath>>
    /\ Len(written) >= 2
    /\ AllArtifacts \subseteq artifacts
    /\ result = 1

-----------------------------------------------------------------------------
(* Properties of the sitemap *)

\* the distinct jurisdiction slugs of the records
JurisdictionSlugs(rows) == {RowJurisdiction(rows[i]) : i \in 1..Len(rows)}

SitemapWritten == csv = "ok" /\ "sitemap.xml" \in artifacts

\* C14: the sitemap of N records with J distinct jurisdiction slugs has
\* exactly 1 + J + N entries: "/" for the homepage, then /{jurisdiction}/ once
\* for each distinct jurisdiction slug, then /{jurisdiction}/{permit}/ for
\* each record in input order.
C14_SitemapHasOnePlusJPlusNEntries ==
    SitemapWritten =>
        LET rows == df.rows
            N == Len(rows)
            J == Cardinality(JurisdictionSlugs(rows))
        IN  /\ Len(sitemap) = 1 + J + N
            /\ sitemap[1] = <<"/">>
            /\ {sitemap[k] : k \in 2..(1 + J)}
                   = {HubUrl(j) : j \in JurisdictionSlugs(rows)}
            /\ \A i \in 1..N :
                  sitemap[1 + J + i]
                      = PermitUrl(RowJurisdiction(rows[i]), RowPermit(rows[i]))

\* a sitemap of two records whose different agency_short values map to the
\* same jurisdiction slug
C14_Witness ==
    /\ SitemapWritten
    /\ Len(df.rows) = 2
    /\ df.rows[1].agency_short # df.rows[2].agency_short
    /\ RowJurisdiction(df.rows[1]) = RowJurisdiction(df.rows[2])
    /\ Len(sitemap) = 4

-----------------------------------------------------------------------------
(* Properties of the slugs the steps derive *)

\* the path a derivation stands for
DerivedUrl(d) == PermitUrl(d.jurisdiction_slug, d.permit_slug)

\* C18: whatever two steps derive for the same agency_short is the same
\* jurisdiction slug, and whatever two steps derive for the same record is
\* the same /{jurisdiction}/{permit}/ path; the steps are the detail pages,
\* the hub grouping, both lists of the homepage, the sitemap and data.json.
C18_EveryStepDerivesTheSameSlug ==
    \A d1, d2 \in derived :
        d1.agency_short = d2.agency_short =>
            /\ d1.jurisdiction_slug = d2.jurisdiction_slug
            /\ (/\ d1.request_type = d2.request_type
                /\ d1.permit_slug # NoPermit
                /\ d2.permit_slug # NoPermit) => DerivedUrl(d1) = DerivedUrl(d2)

-----------------------------------------------------------------------------
(* Properties of the hub pages *)

\* the monthly volume of record i of the table
Volume(table, i) == get_volume(RowVolume(table, i))

\* the hub step has run through all its hubs
HubsDone ==
    /\ csv = "ok"
    /\ gpc \in {"pages", "sitemap", "data_json", "robots", "favicon", "statistics",
                "returned"}

\* C19: each hub lists exactly the records of its jurisdiction slug, each
\* once, records of greater volume first and records of equal volume in input
\* order; when the hub step is through, every record is in exactly one hub.
\* The volume is the first run of digits of the cell: 50 for "50", 800 for
\* "800-1200", 0 for an empty cell and for an absent column.
C19_HubListsSortedByDescendingVolume ==
    /\ get_volume(<<"5", "0">>) = 50
    /\ get_volume(<<"8", "0", "0", "-", "1", "2", "0", "0">>) = 800
    /\ get_volume(NaN) = 0
    /\ "estimated_monthly_volume" \notin df.columns =>
          \A i \in 1..Len(df.rows) : Volume(df, i) = 0
    /\ \A j \in DOMAIN hubs :
          /\ NoRepeats(hubs[j])
          /\ {hubs[j][k] : k \in 1..Len(hubs[j])}
                 = {i \in 1..Len(df.rows) : RowJurisdiction(df.rows[i]) = j}
          /\ \A a, b \in 1..Len(hubs[j]) :
                a < b =>
                    \/ Volume(df, hubs[j][a]) > Volume(df, hubs[j][b])
                    \/ /\ Volume(df, hubs[j][a]) = Volume(df, hubs[j][b])
                       /\ hubs[j][a] < hubs[j][b]
    /\ HubsDone =>
          \A i \in 1..Len(df.rows) :
              Cardinality({j \in DOMAIN hubs :
                              \E k \in 1..Len(hubs[j]) : hubs[j][k] = i}) = 1

\* a hub of two records that lists the second record, of volume 800, before
\* the first, of volume 50
C19_Witness ==
    /\ HubsDone
    /\ \E j \in DOMAIN hubs :
          /\ hubs[j] = <<2, 1>>
          /\ Volume(df, 2) = 800
          /\ Volume(df, 1) = 50

-----------------------------------------------------------------------------
(* Properties of the visit cap *)

CapReached == Cardinality(visited_pages) >= VisitCap

-----------------------------------------------------------------------------
(* Properties of failed link checks *)

\* C21: once the link check of a path has failed, no step fetches the path
\* again: its check is not repeated, whatever page refers to it, it is not
\* visited as a page, and it is neither on the queue nor appended to it; the
\* failed status stays in the memo as it was stored.
C21_FailedCheckIsTerminal ==
    [][\A p \in failed_checks :
          /\ Count(p, checks') = Count(p, checks)
          /\ Count(p, visits') = Count(p, visits)
          /\ Count(p, appended') = Count(p, appended)
          /\ ~InSeq(p, pages_to_visit)
          /\ ~InSeq(p, pages_to_visit')
          /\ p \in DOMAIN link_to_status
          /\ link_to_status[p] # 200
          /\ link_to_status'[p] = link_to_status[p]]_vars

\* a path whose check failed on one page was met again on another page, and
\* the crawl ended with a single fetch of it
C21_Witness ==
    /\ cpc = "done"
    /\ \E p \in failed_checks :
          /\ Cardinality({pg \in Paths : InSeq(p, broken_links[pg])}) = 2
          /\ Count(p, checks) = 1
          /\ p \notin visited_pages

-----------------------------------------------------------------------------
(* Properties of the order of the visits *)

EntryPoint == "/"

IsPrefix(q1, q2) == Len(q1) <= Len(q2) /\ SubSeq(q2, 1, Len(q1)) = q1

\* the place of a path in a list without repeats that holds it
Position(x, q) == CHOOSE i \in 1..Len(q) : q[i] = x

-----------------------------------------------------------------------------
(* Properties of the broken links reported for a page *)

\* the for loop looks at an internal link of the current page
LooksAtInternalLink ==
    cpc = "links" /\ links # <<>> /\ ~IsExternal(Head(links)) /\ links' = Tail(links)

\* C28: every internal link the for loop looks at on a page ends up with a
\* stored status, and it is appended to the broken links of that page exactly
\* when that status is not 200; on a memo hit this happens without a fetch and
\* without a change of the memo. So every entry of a page's list is a link of
\* a visited page with a status other than 200, and no such link is left out.
C28_BrokenLinksOfAPageAreItsNon200Links ==
    [][/\ LooksAtInternalLink =>
             LET link_path == Head(links).path
             IN  /\ link_path \in DOMAIN link_to_status'
                 /\ link_path \in DOMAIN link_to_status =>
                       /\ checks' = checks
                       /\ link_to_status' = link_to_status
                 /\ broken_links' =
                       IF link_to_status'[link_path] # 200
                       THEN RecordBroken(broken_links, current_path, link_path)
                       ELSE broken_links
       /\ ~LooksAtInternalLink => broken_links' = broken_links
       /\ \A page \in Paths : \A k \in 1..Len(broken_links'[page]) :
             /\ page \in visited_pages'
             /\ broken_links'[page][k] \in DOMAIN link_to_status'
             /\ link_to_status'[broken_links'[page][k]] # 200]_vars

\* the second page visited lists a link as broken that was fetched once, for
\* the first page, which lists it too
C28_Witness ==
    /\ Len(visits) = 2
    /\ \E link_path \in DOMAIN link_to_status :
          /\ link_to_status[link_path] # 200
          /\ Count(link_path, checks) = 1
          /\ Count(link_path, broken_links[visits[1]]) = 1
          /\ Count(link_path, broken_links[visits[2]]) = 2

-----------------------------------------------------------------------------
(* Properties of the pending queue *)

\* C29: no path on the pending queue is in visited_pages, and no dequeued
\* page was ever found visited already; every path on the queue other than
\* the entry point has the stored status 200 and no data-file suffix.
C29_QueueHoldsOnlyUnvisitedCheckedPages ==
    /\ \A k \in 1..Len(pages_to_visit) :
          /\ pages_to_visit[k] \notin visited_pages
          /\ pages_to_visit[k] # EntryPoint =>
                /\ pages_to_visit[k] \in DOMAIN link_to_status
                /\ link_to_status[pages_to_visit[k]] = 200
                /\ ~EndsWithDataSuffix(pages_to_visit[k])
    /\ ~guard_fired

\* the visited entry point and a data file were both checked with status 200
\* and neither was put on the queue, which holds a page
C29_Witness ==
    /\ EntryPoint \in visited_pages
    /\ EntryPoint \in DOMAIN link_to_status
    /\ link_to_status[EntryPoint] = 200
    /\ \E p \in DOMAIN link_to_status : EndsWithDataSuffix(p) /\ link_to_status[p] = 200
    /\ ~InSeq(EntryPoint, appended)
    /\ \A k \in 1..Len(appended) : ~EndsWithDataSuffix(appended[k])
    /\ pages_to_visit # <<>>

-----------------------------------------------------------------------------
(* Properties of the resolution of a reference without trailing slash *)

NoTrailingSlash(link) == link # <<"/">> /\ link[Len(link)] # "/"

Literal(link) == Components(StripSlashes(link))

DirIndex(link) == Components(StripSlashes(link)) \o <<IndexFile>>

WithHtml(link) == Components(StripSlashes(link) \o <<".html">>)

\* the candidates were tried in this order and the first that exists won:
\* every candidate tried before the last does not exist, and the trial went
\* on to the end of the order only if the last but one does not exist either
TriedInOrder(link, order) ==
    /\ IsPrefix(file_paths[link], order)
    /\ file_paths[link] # <<>>
    /\ \A k \in 1..(Len(file_paths[link]) - 1) : ~Exists(tree, file_paths[link][k])
    /\ Len(file_paths[link]) < Len(order) =>
          Exists(tree, file_paths[link][Len(file_paths[link])])

\* C23 as stated: a reference without trailing slash is resolved by trying
\* the literal path, then the index file under the directory of that name,
\* then the path with .html added; the first that exists wins.
C23_LiteralThenIndexThenExtension ==
    (lpc = "returned" /\ output_exists) =>
        \A link \in DOMAIN file_paths :
            NoTrailingSlash(link) =>
                TriedInOrder(link, <<Literal(link), DirIndex(link), WithHtml(link)>>)

\* C23 amended: a reference without trailing slash is resolved by trying the
\* literal path, then the path with .html added, then the index file under
\* the directory of that name; the first that exists wins, and the path last
\* tried is the one whose existence decides whether the reference is broken.
C23_LiteralThenExtensionThenIndex ==
    (lpc = "returned" /\ output_exists) =>
        \A link \in DOMAIN file_paths :
            NoTrailingSlash(link) =>
                /\ TriedInOrder(link, <<Literal(link), WithHtml(link), DirIndex(link)>>)
                /\ file_paths[link][Len(file_paths[link])] = FilePath(tree, link)

\* the reference "/b" was resolved to b.html after the literal path b was
\* not found, and the index file under b was not tried
C23_Witness ==
    /\ lpc = "returned"
    /\ <<"/", "b">> \in DOMAIN file_paths
    /\ file_paths[<<"/", "b">>] = <<Literal(<<"/", "b">>), WithHtml(<<"/", "b">>)>>
    /\ WithHtml(<<"/", "b">>) \in tree

-----------------------------------------------------------------------------
(* Properties of the references extract_links_from_html returns *)

\* the href values of a page, in document order
HrefsOf(file) == MatchesOf(file, refs)

\* an external absolute URL, a mailto: or tel: reference, a fragment-only
\* reference or a javascript: reference
NotInternal(href) ==
    href[1] \in {"http://", "https://", "mailto:", "tel:", "#", "javascript:"}

RootRelative(href) == href[1] = "/"

\* C24: the links extracted from a page hold every root-relative reference
\* of the page and, besides the resolved relative references, nothing else:
\* no http://, https://, mailto:, tel:, fragment-only or javascript:
\* reference is returned, and none is reported as broken.
C24_OnlyInternalReferencesExtracted ==
    (lpc = "returned" /\ output_exists) =>
        \A file \in HtmlFiles(tree) :
            LET hrefs == {HrefsOf(file)[k] : k \in 1..Len(HrefsOf(file))}
            IN  /\ \A href \in hrefs :
                      /\ NotInternal(href) =>
                            /\ href \notin all_links[file]
                            /\ ~Reported(file, href)
                      /\ RootRelative(href) => href \in all_links[file]
                /\ all_links[file] =
                       {href \in hrefs : RootRelative(href)}
                       \cup {UrlJoinPath(BasePath(file), href) :
                                href \in {h \in hrefs : ~NotInternal(h) /\ ~RootRelative(h)}}
                /\ \A link \in all_links[file] : RootRelative(link)

\* a page with a tel: reference and the root-relative reference "/c/": only
\* "/c/" was extracted, and it is the only reference reported for the page
C24_Witness ==
    /\ lpc = "returned"
    /\ \E file \in HtmlFiles(tree) :
          /\ HrefsOf(file) = <<<<"tel:", "1">>, <<"/", "c", "/">>>>
          /\ all_links[file] = {<<"/", "c", "/">>}
          /\ file \in DOMAIN local_broken
          /\ local_broken[file] = <<<<"/", "c", "/">>>>

-----------------------------------------------------------------------------
(* Properties of the error tally and the value generate() returns *)

\* the failures the run met so far: the failed generate_page calls and the
\* failed favicon copy
Failures == Len(skipped) + (IF favicon = "failed" THEN 1 ELSE 0)

\* C25: generate() returns 0 if and only if the error tally is 0 when the
\* run ends, and 1 otherwise; a step raises the tally by exactly one when
\* it is a failed generate_page call or a failed favicon copy, and no step
\* lowers or resets it.
C25_ReturnsZeroIffNoErrors ==
    [][/\ errors' = errors + (Len(skipped') - Len(skipped))
                            + (IF favicon # "failed" /\ favicon' = "failed" THEN 1 ELSE 0)
       /\ errors' >= errors
       /\ Len(skipped') >= Len(skipped)
       /\ favicon = "failed" => favicon' = "failed"
       /\ (gpc # "returned" /\ gpc' = "returned") =>
              /\ result' \in {0, 1}
              /\ result' = 0 <=> errors' = 0
              /\ errors' = errors]_vars

\* a run whose pages were all written and whose favicon copy failed
\* returned 1 with a tally of 1
C25_Witness ==
    /\ gpc = "returned"
    /\ favicon = "failed"
    /\ skipped = <<>>
    /\ Len(written) > 0
    /\ errors = 1
    /\ result = 1

-----------------------------------------------------------------------------
(* Properties of the sitemap against the emitted pages *)

\* the segments of a URL path between its slashes, empty ones included
RECURSIVE Segments(_)
Segments(chars) ==
    IF chars = <<>> THEN <<<<>>>>
    ELSE LET rest == Segments(Tail(chars))
         IN  IF Head(chars) = "/"
             THEN <<<<>>>> \o rest
             ELSE <<<<Head(chars)>> \o rest[1]>> \o Tail(rest)

\* the page file a URL of the sitemap is served from: index.html under the
\* directory of the URL
PathOfUrl(url) == PathJoin(Segments(url) \o <<IndexHtml>>)

\* the page files of the hub and detail URLs the sitemap lists
ListedPages == {PathOfUrl(sitemap[k]) : k \in 2..Len(sitemap)} \ {HomepagePath}

\* the hub and detail page files the run wrote
EmittedPages == {written[i] : i \in 1..Len(written)} \ {HomepagePath}

\* C26: after a run that reaches the end, every hub and detail URL of the
\* sitemap is the URL of a page file the run emitted at the matching path,
\* and every emitted hub and detail page is listed in the sitemap.
C26_SitemapListsExactlyTheEmittedPages ==
    gpc = "returned" => ListedPages = EmittedPages

\* the same for the runs in which no generate_page call failed
SitemapMatchesWhenNoPageFailed ==
    (gpc = "returned" /\ skipped = <<>>) => ListedPages = EmittedPages

\* every emitted hub and detail page is listed, whether pages failed or not
EmittedPagesAreListed ==
    gpc = "returned" => EmittedPages \subseteq ListedPages

-----------------------------------------------------------------------------
(* Properties of the detail paths against the hub and homepage paths *)

\* every record has a non-empty agency_short and a non-empty request_type
FieldsNonEmpty(rows) ==
    \A i \in 1..Len(rows) :
        ~IsNaN(rows[i].agency_short) /\ ~IsNaN(rows[i].request_type)

\* the output paths of the homepage and of the hub pages of these records
HomeAndHubPaths(rows) ==
    {HomepagePath} \cup {HubPath(HubOrder(rows)[k]) : k \in 1..Len(HubOrder(rows))}

\* C27: on records whose agency_short and request_type are non-empty, the
\* output path a detail page was generated at is never the output path of a
\* hub page or of the homepage, also when a slug derived from a non-empty
\* field is the empty string.
C27_DetailPathIsNoHubOrHomePath ==
    (csv = "ok" /\ FieldsNonEmpty(df.rows) /\ gpc \in {"pages", "sitemap"}) =>
        \A r \in 1..Len(df.rows) :
            r < rowIdx => RowDetailPath(df.rows[r]) \notin HomeAndHubPaths(df.rows)

\* the same for the records whose permit slug is not empty
DetailPathDistinctWhenSlugsNonEmpty ==
    (csv = "ok" /\ FieldsNonEmpty(df.rows) /\ gpc \in {"pages", "sitemap"}) =>
        \A r \in 1..Len(df.rows) :
            (r < rowIdx /\ RowPermit(df.rows[r]) # <<>>) =>
                RowDetailPath(df.rows[r]) \notin HomeAndHubPaths(df.rows)

-----------------------------------------------------------------------------
(* Properties of the statistics and the popular list of a hub *)

\* C30: the popular_permits list of each hub is the first min(6, n)
\* elements of the hub's sorted all_permits list of length n, in the same
\* order, the hub's total_permits is n, and its online, API and MCP counts
\* are each at most n.
C30_PopularListIsHeadOfSortedList ==
    csv = "ok" =>
        /\ DOMAIN hub_stats = DOMAIN hubs
        /\ \A j \in DOMAIN hub_stats :
              LET n == Len(hubs[j])
                  shown == IF n < PopularCount THEN n ELSE PopularCount
              IN  /\ Len(hub_stats[j].popular_permits) = shown
                  /\ \A k \in 1..shown : hub_stats[j].popular_permits[k] = hubs[j][k]
                  /\ hub_stats[j].total_permits = n
                  /\ hub_stats[j].online_permits \in 0..n
                  /\ hub_stats[j].api_permits \in 0..n
                  /\ hub_stats[j].mcp_permits \in 0..n

\* a hub of two permits whose second record has the greater volume and whose
\* first record is available online: the popular list holds the second
\* record alone, the total is 2 and the online count is 1
C30_Witness ==
    /\ HubsDone
    /\ \E j \in DOMAIN hub_stats :
          /\ hubs[j] = <<2, 1>>
          /\ hub_stats[j].popular_permits = <<2>>
          /\ hub_stats[j].total_permits = 2
          /\ hub_stats[j].online_permits = 1
          /\ hub_stats[j].mcp_permits = 0


=============================================================================
